---- MODULE Spec2Model ----
(***************************************************************************)
(* Model of the prediction-market environment of PredictionMarkets:        *)
(*   - MarketState, PredictionMarketMechanism and PredictionMarketEnvironment *)
(*     (market_agents/environments/mechanisms/prediction_markets.py),      *)
(*   - the action phase of PredictionMarketsOrchestrator                   *)
(*     (market_agents/orchestrators/prediction_markets_orchestrator.py).   *)
(*                                                                         *)
(* Python floats are modelled as exact rationals [num, den]; a dict is a   *)
(* function whose DOMAIN is its key set; an insertion-ordered dict whose   *)
(* order matters (a batch, a round summary entry) is a sequence of         *)
(* key/value records; Optional[X] is a sequence of length 0 (None) or 1.   *)
(***************************************************************************)
EXTENDS Integers, Sequences, FiniteSets, TLC

\* ------------------------------------------------------------------ bounds

\* Most calls (step / resolve) made on one environment in a run of the model.
MaxCalls == 2

\* ------------------------------------------------------- program constants

\* PredictionMarketMechanism.initial_liquidity default.
DefaultInitialLiquidity == 1000

\* PredictionMarketAction.stake: ge=1.0, le=100.0.
MinStake == 1
MaxStake == 100

\* -------------------------------------------------------------- rationals

Rat(n, d) == [num |-> n, den |-> d]

RatEq(p, q) == p.den # 0 /\ q.den # 0 /\ p.num * q.den = q.num * p.den

RatAdd(p, q) == Rat(p.num * q.den + q.num * p.den, p.den * q.den)

RatNonNeg(p) == p.den # 0 /\ p.num * p.den >= 0

RECURSIVE RatSum(_, _)
\* Sum of prices[opt] over the sequence opts.
RatSum(prices, opts) ==
    IF opts = << >> THEN Rat(0, 1)
    ELSE RatAdd(prices[Head(opts)], RatSum(prices, Tail(opts)))

\* ------------------------------------------------------- generic helpers

Range(s) == {s[i] : i \in DOMAIN s}

None == << >>
Some(x) == << x >>

EmptyDict == [k \in {} |-> 0]

\* dict.get(k, 0.0)
Get(d, k) == IF k \in DOMAIN d THEN d[k] ELSE 0

\* d[k] = v on a dict
Put(d, k, v) == [x \in (DOMAIN d) \cup {k} |-> IF x = k THEN v ELSE d[x]]

RECURSIVE SumOver(_, _)
\* sum(d.get(opt, 0.0) for opt in opts)
SumOver(d, opts) ==
    IF opts = << >> THEN 0 ELSE Get(d, Head(opts)) + SumOver(d, Tail(opts))

\* ----------------------------------------------------------------- enums

BINARY == "BINARY"
SCALAR == "SCALAR"
CATEGORICAL == "CATEGORICAL"
MarketType == {BINARY, SCALAR, CATEGORICAL}

BET == "BET"
HOLD == "HOLD"
ActionType == {BET, HOLD}

BinaryOutcome == {"Yes", "No"}

\* outcome=None of a bet or of an unresolved market
NoOutcome == "None"

\* ------------------------------------------------------------ MarketState

\* MarketState(**kw): the pydantic construction of a market from keyword
\* arguments kw (a record).  market_type is a required field (Field(...));
\* validate_market_type rejects every type but BINARY and CATEGORICAL;
\* validate_options rejects an empty options list.  total_liquidity defaults
\* to 0.0, resolved to False, outcome to None.
MarketState(kw) ==
    IF "market_type" \notin DOMAIN kw
      THEN [ok |-> FALSE, error |-> "ValidationError"]
    ELSE IF kw.market_type \notin {BINARY, CATEGORICAL}
      THEN [ok |-> FALSE, error |-> "ValidationError"]
    ELSE IF kw.options = << >>
      THEN [ok |-> FALSE, error |-> "ValidationError"]
    ELSE [ok |-> TRUE, error |-> "",
          value |-> [event_id |-> kw.event_id,
                     market_type |-> kw.market_type,
                     options |-> kw.options,
                     range_min |-> NoOutcome,
                     range_max |-> NoOutcome,
                     total_bets |-> kw.total_bets,
                     current_prices |-> kw.current_prices,
                     total_liquidity |->
                         IF "total_liquidity" \in DOMAIN kw
                           THEN kw.total_liquidity ELSE 0,
                     resolved |-> FALSE,
                     outcome |-> NoOutcome]]

\* recompute_prices as a bug would have it: only the options that carry a
\* stake are repriced (the loop of the SCALAR branch taken for every market).
recompute_prices_staked_only(self, total_bets) ==
    LET total == SumOver(total_bets, self.options)
    IN  [v \in (DOMAIN self.current_prices) \cup (DOMAIN total_bets) |->
            IF v \in DOMAIN total_bets
              THEN Rat(total_bets[v], total)
              ELSE self.current_prices[v]]

\* Lines 296-309 of update_with_bet: the prices recomputed from the stakes.
recompute_prices(self, total_bets) ==
    IF self.market_type = SCALAR
      THEN LET total == SumOver(total_bets,
                                CHOOSE s \in [1..Cardinality(DOMAIN total_bets)
                                                -> DOMAIN total_bets] :
                                    Range(s) = DOMAIN total_bets)
           IN  [v \in (DOMAIN self.current_prices) \cup (DOMAIN total_bets) |->
                   IF v \in DOMAIN total_bets
                     THEN Rat(total_bets[v], total)
                     ELSE self.current_prices[v]]
      ELSE LET total == SumOver(total_bets, self.options)
           IN  IF total > 0
                 THEN [opt \in Range(self.options) |->
                          Rat(Get(total_bets, opt), total)]
                 ELSE [opt \in Range(self.options) |->
                          Rat(1, Len(self.options))]

\* update_with_bet without line 294: the stake is added to total_bets and
\* not to total_liquidity.
update_with_bet_stake_only(self, bet) ==
    LET bad == IF self.market_type = SCALAR
                 THEN ~(self.range_min <= bet.outcome
                        /\ bet.outcome <= self.range_max)
                 ELSE bet.outcome \notin Range(self.options)
        total_bets == Put(self.total_bets, bet.outcome,
                          Get(self.total_bets, bet.outcome) + bet.stake)
    IN  IF bad
          THEN [ok |-> FALSE, error |-> "ValueError", market |-> self]
          ELSE [ok |-> TRUE, error |-> "",
                market |-> [self EXCEPT
                    !.total_bets = total_bets,
                    !.current_prices = recompute_prices(self, total_bets)]]

\* MarketState.update_with_bet(bet): the market after the bet, or the
\* ValueError it raises (the market is then unchanged).
update_with_bet(self, bet) ==
    LET bad == IF self.market_type = SCALAR
                 THEN ~(self.range_min <= bet.outcome
                        /\ bet.outcome <= self.range_max)
                 ELSE bet.outcome \notin Range(self.options)
        outcome_key == bet.outcome
        total_bets == Put(self.total_bets, outcome_key,
                          Get(self.total_bets, outcome_key) + bet.stake)
    IN  IF bad
          THEN [ok |-> FALSE, error |-> "ValueError", market |-> self]
          ELSE [ok |-> TRUE, error |-> "",
                market |-> [self EXCEPT
                    !.total_bets = total_bets,
                    !.total_liquidity = self.total_liquidity + bet.stake,
                    !.current_prices = recompute_prices(self, total_bets)]]

\* MarketState.resolve(outcome): validates the outcome, then sets resolved and
\* outcome unconditionally (there is no check of self.resolved).
resolve(self, outcome) ==
    LET bad == IF self.market_type = SCALAR
                 THEN ~(self.range_min <= outcome /\ outcome <= self.range_max)
                 ELSE outcome \notin Range(self.options)
    IN  IF bad
          THEN [ok |-> FALSE, error |-> "ValueError", market |-> self]
          ELSE [ok |-> TRUE, error |-> "",
                market |-> [self EXCEPT !.resolved = TRUE,
                                        !.outcome = outcome]]

\* ------------------------------------------------ PredictionMarketMechanism

\* str.upper() on the market_type strings a configuration uses.
upper(str) ==
    CASE str \in {"binary", "BINARY"} -> BINARY
      [] str \in {"categorical", "CATEGORICAL"} -> CATEGORICAL
      [] str \in {"scalar", "SCALAR"} -> SCALAR
      [] OTHER -> str

\* PredictionMarketMechanism(max_rounds=..., markets=..., market_config=...):
\* current_round = 0, no round summary, no last step, no last action.
PredictionMarketMechanism(max_rounds, markets, market_config) ==
    [max_rounds |-> max_rounds,
     current_round |-> 0,
     markets |-> markets,
     initial_liquidity |-> DefaultInitialLiquidity,
     round_summaries |-> << >>,
     last_step |-> None,
     market_config |-> market_config,
     last_action |-> None]

\* initialize_market as a bug would have it: the new market is priced
\* uniformly, whatever initial_prices the configuration gives.
initialize_market_uniform(self, market_config) ==
    LET made == MarketState(
                  [event_id |-> market_config.name,
                   market_type |-> upper(market_config.market_type),
                   options |-> market_config.outcomes,
                   total_bets |-> EmptyDict,
                   current_prices |->
                       [o \in Range(market_config.outcomes) |->
                           Rat(1, Len(market_config.outcomes))],
                   total_liquidity |-> self.initial_liquidity])
    IN  IF made.ok
          THEN [ok |-> TRUE, error |-> "",
                mech |-> [self EXCEPT !.markets =
                             Put(self.markets, market_config.name, made.value)]]
          ELSE [ok |-> FALSE, error |-> made.error, mech |-> self]

\* PredictionMarketMechanism.initialize_market(market_config): the market of
\* the configuration is stored under the configuration's name (replacing a
\* market already stored under it), priced at the configured initial_prices.
initialize_market(self, market_config) ==
    LET market_id == market_config.name
        market_type == upper(market_config.market_type)
        made == IF market_type \notin MarketType
                  THEN [ok |-> FALSE, error |-> "ValueError"]
                  ELSE MarketState(
                         [event_id |-> market_id,
                          market_type |-> market_type,
                          options |-> market_config.outcomes,
                          total_bets |-> EmptyDict,
                          current_prices |-> market_config.initial_prices,
                          total_liquidity |->
                              IF "initial_liquidity" \in DOMAIN market_config
                                THEN market_config.initial_liquidity
                                ELSE self.initial_liquidity])
    IN  IF made.ok
          THEN [ok |-> TRUE, error |-> "",
                mech |-> [self EXCEPT !.markets =
                                 Put(self.markets, market_id, made.value)]]
          ELSE [ok |-> FALSE, error |-> made.error, mech |-> self]

\* PredictionMarketMechanism._create_observations: one local observation per
\* agent id of last_action, in the batch's order; all of them hold the same
\* PredictionMarketObservation, whose market_states are the mechanism's own
\* MarketState objects (so they show what step does to them afterwards).
create_observations(self) ==
    IF self.last_action = None
      THEN << >>
      ELSE [i \in DOMAIN self.last_action[1] |->
               self.last_action[1][i].agent_id]

\* body(value), with value computed once
With(value, body(_)) == CHOOSE result \in {body(v) : v \in {value}} : TRUE

RECURSIVE process_bets(_, _, _)
\* The loop of step (lines 437-448) over the items not yet processed:
\* round_actions collected so far, the mechanism as the bets change it, and
\* the exception that ends the loop, if any.
process_bets(self, items, round_actions) ==
    IF items = << >>
      THEN [ok |-> TRUE, error |-> "", mech |-> self,
            round_actions |-> round_actions]
    ELSE
      LET agent_id == Head(items).agent_id
          bet == Head(items).action
          recorded == Append(round_actions,
                             [agent_id |-> agent_id, action |-> bet])
      IN  IF bet.action_type = HOLD
            THEN process_bets(self, Tail(items), recorded)
          ELSE
            LET init ==
                  IF bet.event_id \in DOMAIN self.markets
                    THEN [ok |-> TRUE, error |-> "", mech |-> self]
                  ELSE IF self.market_config # None
                    THEN initialize_market(self, self.market_config[1])
                  ELSE [ok |-> FALSE,
                        error |-> "ValueError: No market configuration found",
                        mech |-> self]
            IN  IF ~init.ok
                  THEN [ok |-> FALSE, error |-> init.error, mech |-> init.mech,
                        round_actions |-> recorded]
                ELSE IF bet.event_id \notin DOMAIN init.mech.markets
                  THEN [ok |-> FALSE, error |-> "KeyError", mech |-> init.mech,
                        round_actions |-> recorded]
                ELSE
                  LET upd == update_with_bet(init.mech.markets[bet.event_id],
                                             bet)
                  IN  IF ~upd.ok
                        THEN [ok |-> FALSE,
                              error |-> "ValueError: not a valid option",
                              mech |-> init.mech,
                              round_actions |-> recorded]
                        ELSE process_bets(
                               [init.mech EXCEPT
                                   !.markets[bet.event_id] = upd.market],
                               Tail(items), recorded)

\* apply_bets as a bug would have it: the round summary entry records the
\* bets only, not the HOLDs.
apply_bets_records_bets_only(self, action) ==
    With(process_bets([self EXCEPT !.current_round = self.current_round + 1,
                                   !.last_action = Some(action)],
                      action, << >>),
         LAMBDA loop :
           IF loop.ok
             THEN [ok |-> TRUE, error |-> "",
                   mech |-> [loop.mech EXCEPT !.round_summaries =
                               Append(loop.mech.round_summaries,
                                      SelectSeq(loop.round_actions,
                                          LAMBDA x :
                                              x.action.action_type # HOLD))]]
             ELSE [ok |-> FALSE, error |-> loop.error, mech |-> loop.mech])

\* Lines 433-450 of step: the round counter, last_action, the bets, and the
\* round summary entry (appended only when no bet raised).
apply_bets(self, action) ==
    With(process_bets([self EXCEPT !.current_round = self.current_round + 1,
                                   !.last_action = Some(action)],
                      action, << >>),
         LAMBDA loop :
           IF loop.ok
             THEN [ok |-> TRUE, error |-> "",
                   mech |-> [loop.mech EXCEPT !.round_summaries =
                               Append(loop.mech.round_summaries,
                                      loop.round_actions)]]
             ELSE [ok |-> FALSE, error |-> loop.error, mech |-> loop.mech])

\* is_done as a bug would have it: one round too late.
is_done_late(self) == self.current_round > self.max_rounds

\* done = (self.current_round >= self.max_rounds), line 456
is_done(self) == self.current_round >= self.max_rounds

\* Lines 457-461 of step: every market not yet resolved gets
\* random.choice(market.options), here random[event_id].
resolve_markets(markets, random) ==
    [e \in DOMAIN markets |->
        IF ~markets[e].resolved
          THEN [markets[e] EXCEPT !.resolved = TRUE, !.outcome = random[e]]
          ELSE markets[e]]

\* PredictionMarketObservation(market_states=self.markets), line 420, as it
\* reads once step has returned: the dict is built when the observations are
\* created, of the mechanism's own MarketState objects, so each entry shows
\* what step did to its market afterwards.
observed_market_states_copied(at_creation, at_return) == at_creation

observed_market_states(at_creation, at_return) ==
    [e \in DOMAIN at_creation |-> at_return[e]]

\* PredictionMarketMechanism.step(action), with the draws of random.choice
\* given as random: the mechanism after the call and either the
\* EnvironmentStep returned or the exception raised.
step(self, action, random) ==
    With(apply_bets(self, action), LAMBDA bets :
      IF ~bets.ok
        THEN [raised |-> TRUE, error |-> bets.error, mech |-> bets.mech]
      ELSE
        LET local_observations == create_observations(bets.mech)
            done == is_done(bets.mech)
            markets == IF done
                         THEN resolve_markets(bets.mech.markets, random)
                         ELSE bets.mech.markets
            step_result ==
                [observations |-> local_observations,
                 observation |->
                     observed_market_states(bets.mech.markets, markets),
                 market_states |-> markets,
                 done |-> done,
                 round |-> bets.mech.current_round]
        IN  [raised |-> FALSE, error |-> "",
             mech |-> [bets.mech EXCEPT !.markets = markets,
                                        !.last_step = Some(step_result)],
             result |-> step_result])

\* --------------------------------------------------- actions of the agents

\* None for a stake is written 0 and None for a price is NoPrice.
NoPrice == Rat(0, 0)

\* kw[name] if the keyword was passed, else the field's default
Field(kw, name, default) == IF name \in DOMAIN kw THEN kw[name] ELSE default

\* PredictionMarketAction(**kw) / PredictionBet(**kw): market_type and
\* action_type are required.  The validators run on the keywords that were
\* passed: validate_outcome ties a BET's outcome to the market_type (the
\* outcomes of this model are strings, which a SCALAR bet rejects), a stake
\* passed must lie in [1, 100] and a price in [0, 1], and a BET rejects
\* stake=None and price=None.
PredictionMarketAction(kw) ==
    IF "market_type" \notin DOMAIN kw \/ "action_type" \notin DOMAIN kw
      THEN [ok |-> FALSE, error |-> "ValidationError"]
    ELSE IF kw.market_type \notin MarketType \/ kw.action_type \notin ActionType
      THEN [ok |-> FALSE, error |-> "ValidationError"]
    ELSE IF \/ /\ "outcome" \in DOMAIN kw
               /\ kw.action_type = BET
               /\ \/ kw.market_type = BINARY /\ kw.outcome \notin BinaryOutcome
                  \/ kw.market_type = SCALAR
                  \/ kw.outcome = NoOutcome
            \/ /\ "stake" \in DOMAIN kw
               /\ IF kw.stake = 0 THEN kw.action_type = BET
                  ELSE kw.stake < MinStake \/ kw.stake > MaxStake
            \/ /\ "price" \in DOMAIN kw
               /\ IF kw.price = NoPrice THEN kw.action_type = BET
                  ELSE ~RatNonNeg(kw.price) \/ kw.price.num > kw.price.den
      THEN [ok |-> FALSE, error |-> "ValidationError"]
    ELSE [ok |-> TRUE, error |-> "",
          value |-> [market_type |-> kw.market_type,
                     action_type |-> kw.action_type,
                     outcome |-> Field(kw, "outcome", NoOutcome),
                     stake |-> Field(kw, "stake", 0),
                     price |-> Field(kw, "price", NoPrice)]]

\* PredictionBet(**kw): the action's fields and the required event_id.
PredictionBet(kw) ==
    LET made == PredictionMarketAction(kw)
    IN  IF "event_id" \notin DOMAIN kw \/ ~made.ok
          THEN [ok |-> FALSE, error |-> "ValidationError"]
          ELSE [ok |-> TRUE, error |-> "",
                value |-> [k \in (DOMAIN made.value) \cup {"event_id"} |->
                              IF k = "event_id" THEN kw.event_id
                              ELSE made.value[k]]]

\* A BET as the mechanism receives it (PredictionBet: the action's fields and
\* the event_id).
Bet(market_type, event_id, outcome, stake) ==
    [market_type |-> market_type, action_type |-> BET, outcome |-> outcome,
     stake |-> stake, price |-> Rat(1, 2), event_id |-> event_id]

\* A HOLD: outcome, stake and price are None.
Hold(event_id) ==
    [market_type |-> BINARY, action_type |-> HOLD, outcome |-> NoOutcome,
     stake |-> 0, price |-> NoPrice, event_id |-> event_id]

\* The agents of the roster, in roster order.
Roster == << "A", "B" >>

\* The actions an agent may submit in a round: those of the candidates that
\* PredictionBet accepts.  "Maybe" is an option of some markets only and "m2"
\* is an event some mechanisms hold no market for.
BetChoices ==
    {b \in {Bet(BINARY, "m1", "Yes", 1), Bet(BINARY, "m1", "No", 2),
            Bet(CATEGORICAL, "m1", "Maybe", 1), Bet(BINARY, "m2", "Yes", 1),
            Bet(BINARY, "m1", "No", -1), Hold("m1")} :
        PredictionBet(b).ok}

RECURSIVE BatchesOf(_, _)
\* GlobalPredictionMarketAction values with one of choices for every agent of
\* roster, keyed in roster order.
BatchesOf(roster, choices) ==
    IF roster = << >> THEN {<< >>}
    ELSE {<< [agent_id |-> Head(roster), action |-> c] >> \o r :
             c \in choices, r \in BatchesOf(Tail(roster), choices)}

\* The batches a caller steps the environment with: one action per agent, or
\* no action at all.
Batches == BatchesOf(Roster, BetChoices) \cup {<< >>}

\* ---------------------------------------------------------- configurations

Events == {"m1", "m2"}

\* A market configuration as initialize_market reads it (initial_liquidity
\* is optional).
BinaryConfig ==
    [name |-> "m1", market_type |-> "binary", outcomes |-> << "Yes", "No" >>,
     initial_prices |-> [o \in {"Yes", "No"} |-> Rat(1, 2)]]

CategoricalConfig ==
    [name |-> "m1", market_type |-> "categorical",
     outcomes |-> << "Yes", "No", "Maybe" >>,
     initial_prices |-> [o \in {"Yes", "No", "Maybe"} |->
                            IF o = "Yes" THEN Rat(2, 4) ELSE Rat(1, 4)],
     initial_liquidity |-> 500]

MarketConfigs == {BinaryConfig, CategoricalConfig}

\* PredictionMarketEnvironment(mechanism=..., market_config=...): __init__
\* hands the configuration to the mechanism and initializes its market.
PredictionMarketEnvironment(mechanism, market_config) ==
    IF market_config = None
      THEN [ok |-> TRUE, error |-> "", mech |-> mechanism]
      ELSE initialize_market([mechanism EXCEPT !.market_config = market_config],
                             market_config[1])

\* Two markets built directly (MarketState(...) with every required field)
\* and handed to the mechanism's constructor, without a configuration.
DirectMarkets ==
    [e \in Events |->
        MarketState([event_id |-> e,
                     market_type |-> IF e = "m1" THEN BINARY ELSE CATEGORICAL,
                     options |-> IF e = "m1" THEN << "Yes", "No" >>
                                 ELSE << "Yes", "No", "Maybe" >>,
                     total_bets |-> EmptyDict,
                     current_prices |->
                         IF e = "m1"
                           THEN [o \in {"Yes", "No"} |->
                                    IF o = "Yes" THEN Rat(3, 4) ELSE Rat(1, 4)]
                           ELSE [o \in {"Yes", "No", "Maybe"} |-> Rat(1, 3)]
                    ]).value]

\* The mechanisms a run may start from: an environment constructed with a
\* market configuration (its market is initialized eagerly), a mechanism that
\* holds a configuration and no market yet (the market is created by the
\* first bet), a mechanism with neither, and a mechanism given its markets
\* (both of DirectMarkets, or m1 alone).
InitialMechanisms ==
    {PredictionMarketEnvironment(
         PredictionMarketMechanism(r, EmptyDict, None), Some(c)).mech :
        r \in {1, 2}, c \in MarketConfigs}
    \cup {PredictionMarketMechanism(r, EmptyDict, Some(c)) :
             r \in {1, 2}, c \in MarketConfigs}
    \cup {PredictionMarketMechanism(r, EmptyDict, None) : r \in {1, 2}}
    \cup {PredictionMarketMechanism(r, DirectMarkets, None) : r \in {1, 2}}
    \cup {PredictionMarketMechanism(
              r, [e \in {"m1"} |-> DirectMarkets[e]], None) : r \in {1, 2}}

\* ------------------------------------------- PredictionMarketsOrchestrator

\* What run_parallel_action hands back for one agent: nothing (the request
\* failed), a string that is not JSON, or a JSON object (a dict).
FailedOutput == [kind |-> "none", content |-> EmptyDict]
GarbageOutput == [kind |-> "str", content |-> EmptyDict]
JsonOutput(content) == [kind |-> "json", content |-> content]

\* The dicts an agent may answer with: a well-formed BET, a well-formed HOLD
\* and an action type the mechanism does not know.
Contents ==
    {[action_type |-> BET, outcome |-> "Yes", stake |-> 1, price |-> Rat(1, 2)],
     [action_type |-> HOLD, outcome |-> NoOutcome, stake |-> 0,
      price |-> NoPrice],
     [action_type |-> "BUY", outcome |-> "Yes", stake |-> 1,
      price |-> Rat(1, 2)]}

AgentOutputs == {FailedOutput, GarbageOutput} \cup {JsonOutput(c) : c \in Contents}

\* The name of the orchestrator's configuration (self.config.name), which is
\* the event_id of every action it builds.
ConfigName == "m1"

\* PredictionMarketLocalAction.from_market_action(agent_id, action, event_id):
\* PredictionBet(**action.model_dump(), event_id=event_id).
from_market_action(agent_id, action, event_id) ==
    [agent_id |-> agent_id,
     action |-> PredictionBet(
                   [k \in (DOMAIN action) \cup {"event_id"} |->
                       IF k = "event_id" THEN event_id ELSE action[k]]).value]

\* Lines 185-190: PredictionMarketAction(action_type=..., outcome=...,
\* stake=..., price=...).  No market_type is passed.  (Outcome, which wraps
\* the outcome, is imported from the mechanism module, which defines no such
\* name; whatever it yields, the keyword arguments are these.)
market_action_of(content) ==
    IF content.action_type \notin ActionType
      THEN [ok |-> FALSE, error |-> "ValueError"]
      ELSE PredictionMarketAction(
             [action_type |-> content.action_type, outcome |-> content.outcome,
              stake |-> content.stake, price |-> content.price])

\* Lines 201 and 214: PredictionMarketAction(action_type=ActionType.HOLD).
hold_action == PredictionMarketAction([action_type |-> HOLD])

RECURSIVE process_agent_actions(_, _, _, _, _)
\* _process_agent_actions(actions) from roster position i on: agent_actions
\* built so far, each agent's last_action, and the exception that leaves the
\* method, if any (a fallback that raises inside an except block).
process_agent_actions(roster, actions, i, agent_actions, last_action) ==
    IF i > Len(roster) \/ i > Len(actions)
      THEN [raised |-> FALSE, error |-> "", agent_actions |-> agent_actions,
            last_action |-> last_action]
    ELSE
      LET agent == roster[i]
          action == actions[i]
          fallback ==
              IF hold_action.ok
                THEN process_agent_actions(roster, actions, i + 1,
                       Append(agent_actions,
                              from_market_action(agent, hold_action.value,
                                                 ConfigName)),
                       last_action)
                ELSE [raised |-> TRUE, error |-> hold_action.error,
                      agent_actions |-> agent_actions,
                      last_action |-> last_action]
      IN  IF action.kind = "str"
            THEN fallback   \* json.loads raises: the outer except block
          ELSE
            LET content == IF action.kind = "json" THEN Some(action.content)
                           ELSE None
                noted == [last_action EXCEPT ![agent] = content]
            IN  IF content = None
                  THEN process_agent_actions(roster, actions, i + 1,
                                             agent_actions, noted)
                ELSE
                  LET made == market_action_of(content[1])
                  IN  IF made.ok
                        THEN process_agent_actions(roster, actions, i + 1,
                               Append(agent_actions,
                                      from_market_action(agent, made.value,
                                                         ConfigName)),
                               noted)
                      ELSE IF hold_action.ok
                        THEN process_agent_actions(roster, actions, i + 1,
                               Append(agent_actions,
                                      from_market_action(agent,
                                                         hold_action.value,
                                                         ConfigName)),
                               noted)
                      ELSE [raised |-> TRUE, error |-> hold_action.error,
                            agent_actions |-> agent_actions,
                            last_action |-> noted]

\* _run_action_phase, lines 153-160, once _process_agent_actions has ended
\* as built: its exception leaves the method, else the environment is
\* stepped with the batch it built, and an exception of the step leaves the
\* method.
run_action_phase(mech, built, random) ==
    IF built.raised
      THEN [raised |-> TRUE, error |-> built.error, stepped |-> FALSE,
            global_action |-> << >>, mech |-> mech,
            last_action |-> built.last_action]
      ELSE With(step(mech, built.agent_actions, random), LAMBDA r :
             [raised |-> r.raised, error |-> r.error, stepped |-> TRUE,
              global_action |-> built.agent_actions, mech |-> r.mech,
              last_action |-> built.last_action])

\* setup_environment, lines 71-83: the initial market (built without a
\* market_type) and the mechanism that holds it under the configuration's
\* name.
setup_environment(max_rounds, initial_price) ==
    LET initial_market ==
            MarketState([event_id |-> ConfigName,
                         options |-> << "Yes", "No" >>,
                         total_bets |-> EmptyDict,
                         current_prices |->
                             [o \in {"Yes", "No"} |->
                                 IF o = "Yes" THEN initial_price
                                 ELSE Rat(initial_price.den - initial_price.num,
                                          initial_price.den)]])
    IN  IF initial_market.ok
          THEN [ok |-> TRUE, error |-> "",
                mech |-> PredictionMarketMechanism(
                            max_rounds,
                            Put(EmptyDict, ConfigName, initial_market.value),
                            None)]
          ELSE [ok |-> FALSE, error |-> initial_market.error]

\* ------------------------------------------------- the rounds of a market

\* run_market_round, lines 113-123: the phases of a round in the order they
\* are awaited, each one awaited before the next is called.
run_market_round_reflecting_first ==
    << "perception", "reflection", "action", "persistence" >>

run_market_round == << "perception", "action", "reflection", "persistence" >>

\* The phase that follows phase p in a round of the given order, "idle" once
\* the last phase has returned.
next_phase(order, p) ==
    LET i == CHOOSE k \in DOMAIN order : order[k] = p
    IN  IF i < Len(order) THEN order[i + 1] ELSE "idle"

\* An observation an agent holds, named by where it came from: the round of
\* the step that produced it, or 0 for one the agent was handed over with.
LocalObservation(n) == [round |-> n]

PriorObservation == LocalObservation(0)

\* process_environment_state, lines 258-262: every agent the step returned an
\* observation for holds it as last_observation; the other agents keep what
\* they held.
process_environment_state(last_observation, step_result) ==
    [a \in DOMAIN last_observation |->
        IF \E i \in DOMAIN step_result.observations :
               step_result.observations[i] = a
          THEN Some(LocalObservation(step_result.round))
          ELSE last_observation[a]]

\* _run_reflection_phase, lines 228-239: the agents handed to
\* run_parallel_reflection are those whose last_observation is set; with no
\* such agent the method returns without calling it (None).
run_reflection_phase(roster, last_observation) ==
    LET agents_with_observations ==
            SelectSeq(roster, LAMBDA a : last_observation[a] # None)
    IN  IF agents_with_observations = << >>
          THEN None
          ELSE Some(agents_with_observations)

\* What the storage collaborator does with the calls of one round.
StorageOutcomes ==
    {"stored", "insert_actions raises", "insert_environment_state raises"}

\* process_round_results, lines 281-337: insert_actions is called when some
\* agent has a last_action, insert_environment_state always; an exception of
\* either is logged and raised again (lines 334-337).
process_round_results(roster, last_action, storage) ==
    LET actions_data ==
            SelectSeq(roster, LAMBDA a : /\ last_action[a] # None
                                         /\ last_action[a][1] # EmptyDict)
        failed == \/ storage = "insert_actions raises" /\ actions_data # << >>
                  \/ storage = "insert_environment_state raises"
    IN  [raised |-> failed,
         error |-> IF failed THEN "StorageError" ELSE "",
         actions_data |-> actions_data]

\* -------------------------------------------------- web-research rounds

\* _run_sub_round, lines 124-135: the phases of a sub-round in the order they
\* are awaited; the two action phases are named by the phase the environment
\* is switched to before them.
run_sub_round == << "perception", "search", "summary", "reflection" >>

\* run_research_round, lines 103-104: a sub-round, then its results stored.
run_research_round == run_sub_round \o << "persistence" >>

\* What an agent's request returns in an action phase: nothing, text, a json
\* object with a 'query', or another json object.
WebOutputs == {"none", "text", "query", "object"}

\* The queries: the configuration's initial_query, one an agent answers
\* with, and the empty string.
InitialQuery == "initial_query"

AgentQuery == "agent_query"

NoQuery == ""

\* WebResearchActionSpace.set_phase(phase), lines 312-321: the action types
\* allowed in a phase.
allowed_actions(phase, summary_model) ==
    IF phase = "search" THEN {"WebSearchAction"}
    ELSE IF summary_model THEN {"ResearchAction"} ELSE {"StrAction"}

\* WebResearchActionSpace.set_phase(phase), lines 312-321, on an action
\* space with the given summary_model.
set_phase(self, phase, summary_model) ==
    IF phase \notin {"search", "summary"}
      THEN [raised |-> TRUE, error |-> "ValueError: Invalid phase",
            space |-> self]
      ELSE [raised |-> FALSE, error |-> "",
            space |-> [current_phase |-> phase,
                       allowed_actions |->
                           allowed_actions(phase, summary_model)]]

\* WebResearchActionSpace.__init__, lines 307-310.
WebResearchActionSpace(summary_model) ==
    set_phase([current_phase |-> "search", allowed_actions |-> {}],
              "search", summary_model).space

\* _create_global_actions(actions, phase), lines 182-263: the batch, one
\* entry per agent that gets one, in roster order, with the type of the
\* action built.  In the search phase a json object without 'query' gets
\* none; a request that returned nothing raises inside the try block and
\* gets the entry of the except block; in the summary phase every agent
\* gets one.
create_global_actions(roster, outputs, current_phase, summary_model) ==
    LET pairs == [i \in DOMAIN roster |->
                     [agent_id |-> roster[i], output |-> outputs[i]]]
        kept == SelectSeq(pairs, LAMBDA x : \/ current_phase # "search"
                                            \/ x.output # "object")
    IN  [i \in DOMAIN kept |->
            [agent_id |-> kept[i].agent_id,
             action |-> IF current_phase = "search" THEN "WebSearchAction"
                        ELSE IF summary_model THEN "ResearchAction"
                        ELSE "StrAction",
             query |-> IF current_phase # "search" THEN NoQuery
                       ELSE IF kept[i].output = "none" THEN InitialQuery
                       ELSE AgentQuery]]

\* WebSearchMechanism, lines 103-119, as the orchestrator constructs it
\* (lines 61-65 of the orchestrator).
WebSearchMechanism(max_rounds) ==
    [current_round |-> 0, max_rounds |-> max_rounds, last_step |-> None,
     search_history |-> << >>, current_query |-> InitialQuery]

\* WebSearchMechanism.step up to its first await, lines 168-169: the round
\* counter and the done flag of the call.
web_step_called(self, batch, current_phase) ==
    LET current_round == self.current_round + 1
    IN  [mech |-> [self EXCEPT !.current_round = current_round],
         call |-> [batch |-> batch, round |-> current_round,
                   done |-> current_round >= self.max_rounds,
                   phase |-> current_phase]]

\* WebSearchMechanism.step from its last await on, lines 173-207: one
\* observation per agent of the batch, kept as last_step.  execute_web_search
\* (lines 132-161) ran for every WebSearchAction of the batch, in order, and
\* set current_query to its query; nothing is appended to search_history.
web_step_returned(self, call) ==
    LET searches == SelectSeq(call.batch,
                              LAMBDA x : x.action = "WebSearchAction")
        step_result ==
            [observations |-> [i \in DOMAIN call.batch |->
                                  call.batch[i].agent_id],
             searched |-> [i \in DOMAIN searches |-> searches[i].agent_id],
             done |-> call.done, round |-> call.round]
    IN  [mech |-> [self EXCEPT
                     !.last_step = Some(step_result),
                     !.current_query =
                         IF searches = << >> THEN @
                         ELSE searches[Len(searches)].query],
         result |-> step_result]

\* WebSearchMechanism.reset, lines 257-261.
web_mechanism_reset(self) ==
    [self EXCEPT !.current_round = 0, !.search_history = << >>,
                 !.current_query = NoQuery]

\* WebSearchEnvironment.switch_phase(phase), lines 368-374, on the
\* environment self (a record with current_phase, action_space,
\* summary_model and mechanism).
switch_phase_resetting(self, phase) ==
    IF phase \notin {"search", "summary"}
      THEN [raised |-> TRUE, error |-> "ValueError: Invalid phase",
            env |-> self]
      ELSE [raised |-> FALSE, error |-> "",
            env |-> [self EXCEPT
                       !.current_phase = phase,
                       !.action_space =
                           set_phase(@, phase, self.summary_model).space,
                       !.mechanism = web_mechanism_reset(@)]]

switch_phase(self, phase) ==
    IF phase \notin {"search", "summary"}
      THEN [raised |-> TRUE, error |-> "ValueError: Invalid phase",
            env |-> self]
      ELSE [raised |-> FALSE, error |-> "",
            env |-> [self EXCEPT
                       !.current_phase = phase,
                       !.action_space =
                           set_phase(@, phase, self.summary_model).space]]

\* WebSearchEnvironment.reset, lines 419-424: the phase of the environment
\* and the mechanism; the action space is not touched.
web_reset(self) ==
    [self EXCEPT !.current_phase = "search",
                 !.mechanism = web_mechanism_reset(@)]

\* `await self.environment.step(...)`, line 175, like every await of the
\* orchestrator: its coroutine runs on only when no call it awaits is in
\* flight.
orchestrator_runs_unawaited(in_flight) == TRUE

orchestrator_runs(in_flight) == in_flight = << >>

\* _update_agent_observations, lines 302-314: as process_environment_state.
update_agent_observations(last_observation, step_result) ==
    process_environment_state(last_observation, step_result)

\* WebResearchOrchestrator._run_reflection_phase, lines 319-322: all agents.
web_run_reflection_phase(roster) == Some(roster)

\* WebResearchOrchestrator.process_round_results, lines 326-338:
\* insert_environment_state is called with no handler around it.
web_process_round_results(storage) ==
    [raised |-> storage = "insert_environment_state raises",
     error |-> IF storage = "insert_environment_state raises"
                 THEN "StorageError" ELSE ""]

\* The orchestrator, its environment and its agents' observations; pc "off"
\* when the run has no web-research environment.
WebResearchOrchestrator(sub_rounds, max_rounds, pc) ==
    [sub_rounds |-> sub_rounds, max_rounds |-> max_rounds,
     round_num |-> 1, sub_round |-> 0, pc |-> pc,
     current_phase |-> "search",
     summary_model |-> TRUE,
     action_space |-> WebResearchActionSpace(TRUE),
     mechanism |-> WebSearchMechanism(sub_rounds),
     in_flight |-> << >>,
     last_observation |-> [a \in Range(Roster) |-> None],
     reflected |-> None,
     log |-> << >>, prev_log |-> << >>,
     error |-> "",
     last_call |-> [op |-> "__init__", arg |-> "", raised |-> FALSE]]

NoWeb == WebResearchOrchestrator(1, 1, "off")

\* The round of the prediction-market orchestrator in progress: its number,
\* the phases that have run in it and in the round before, each agent's
\* last_observation and the agents handed to run_parallel_reflection.
MarketRound(num, last_observation) ==
    [num |-> num, log |-> << >>, prev_log |-> << >>,
     last_observation |-> last_observation, reflected |-> None]

NoRound == MarketRound(0, [a \in Range(Roster) |-> None])

\* ------------------------------------------------------------------ state

VARIABLES
    mechanism,          \* PredictionMarketEnvironment.mechanism
    current_step,       \* PredictionMarketEnvironment.current_step
    history,            \* PredictionMarketEnvironment.history (its steps)
    calls,              \* number of calls (or rounds) made so far
    ret,                \* how the last call ended
    phase,              \* the orchestrator: "idle", "action" or "aborted"
    actions,            \* the slots of run_parallel_action, by roster position
    arrival,            \* roster positions in the order the requests completed
    agent_last_action,  \* agent.last_action of every agent
    alt,                \* a second execution of the same round
    round,              \* the prediction-market round in progress
    web                 \* the web-research orchestrator and its mechanism

vars == << mechanism, current_step, history, calls, ret, phase, actions,
           arrival, agent_last_action, alt, round, web >>

orchestrator_vars == << phase, actions, arrival, agent_last_action >>

rounds_vars == << round, web >>

\* What a call leaves in ret: the operation, whether it raised and what, and
\* the batch it was given.
Ended(op, raised, error, action) ==
    [op |-> op, raised |-> raised, error |-> error, action |-> action]

\* No request has completed.
NoActions == [i \in DOMAIN Roster |-> None]

Init ==
    /\ mechanism \in InitialMechanisms
    /\ current_step = 0
    /\ history = << >>
    /\ calls = 0
    /\ ret = Ended("__init__", FALSE, "", << >>)
    /\ phase = "idle"
    /\ actions = NoActions
    /\ arrival = << >>
    /\ agent_last_action = [a \in Range(Roster) |-> None]
    /\ alt = [mechanism |-> mechanism, actions |-> NoActions,
              arrival |-> << >>, ended |-> None]
    /\ round = NoRound
    /\ web = NoWeb

\* The outcomes random.choice may draw in step for the mechanism as the bets
\* left it: one option per market that step is about to resolve.
RandomChoices(bets) ==
    IF bets.ok /\ is_done(bets.mech)
      THEN {f \in [Events -> {"Yes", "No", "Maybe", NoOutcome}] :
               \A e \in Events :
                   IF e \in DOMAIN bets.mech.markets
                      /\ ~bets.mech.markets[e].resolved
                     THEN f[e] \in Range(bets.mech.markets[e].options)
                     ELSE f[e] = NoOutcome}
      ELSE {[e \in Events |-> NoOutcome]}

\* PredictionMarketMechanism.reset: the class body defines it twice, and the
\* later definition (lines 530-533) is the method; it leaves
\* round_summaries and last_action as they are.
reset(self) ==
    [self EXCEPT !.current_round = 0, !.markets = EmptyDict,
                 !.last_step = None]

\* PredictionMarketEnvironment.step that counts the call and does not keep
\* it in the history.
EnvironmentStepUnrecorded(action, random) ==
    \E r \in {step(mechanism, action, random)} :
        /\ mechanism' = r.mech
        /\ IF r.raised
             THEN UNCHANGED << current_step, history >>
             ELSE /\ current_step' = current_step + 1
                  /\ history' = history
        /\ ret' = Ended("step", r.raised, r.error, action)

\* PredictionMarketEnvironment.step(actions), lines 551-555: the mechanism's
\* step, then the step counter and the history; an exception of the
\* mechanism's step leaves the counter and the history as they were.
EnvironmentStep(action, random) ==
    \E r \in {step(mechanism, action, random)} :
        /\ mechanism' = r.mech
        /\ IF r.raised
             THEN UNCHANGED << current_step, history >>
             ELSE /\ current_step' = current_step + 1
                  /\ history' = Append(history,
                                       [action |-> action, step |-> r.result])
        /\ ret' = Ended("step", r.raised, r.error, action)

\* A caller steps the environment with some batch.
Step ==
    /\ calls < MaxCalls
    /\ calls' = calls + 1
    /\ \E action \in Batches :
         \E bets \in {apply_bets(mechanism, action)} :
           \E random \in RandomChoices(bets) :
             EnvironmentStep(action, random)
    /\ UNCHANGED << orchestrator_vars, alt, rounds_vars >>

\* A caller resolves one of the mechanism's markets: MarketState.resolve.
Resolve ==
    /\ calls < MaxCalls
    /\ calls' = calls + 1
    /\ \E e \in DOMAIN mechanism.markets :
         \E outcome \in {"Yes", "No", "Maybe"} :
           \E r \in {resolve(mechanism.markets[e], outcome)} :
               /\ mechanism' = [mechanism EXCEPT !.markets[e] = r.market]
               /\ ret' = Ended("resolve", ~r.ok, r.error, << >>)
    /\ UNCHANGED << current_step, history, orchestrator_vars, alt, rounds_vars >>

\* A caller resets the environment: PredictionMarketEnvironment.reset,
\* lines 557-561.
Reset ==
    /\ calls < MaxCalls
    /\ calls' = calls + 1
    /\ current_step' = 0
    /\ history' = << >>
    /\ mechanism' = reset(mechanism)
    /\ ret' = Ended("reset", FALSE, "", << >>)
    /\ UNCHANGED << orchestrator_vars, alt, rounds_vars >>

Next == Step \/ Resolve \/ Reset

Spec == Init /\ [][Next]_vars

\* ------------------------------------------------ the orchestrated rounds

\* The output in every slot, once every request has completed.
Outputs(slots) == [i \in DOMAIN slots |-> slots[i][1]]

AllCompleted(slots) == \A i \in DOMAIN slots : slots[i] # None

\* setup_environment on the orchestrator, for some configured initial_price
\* and max_rounds.
SetupEnvironment ==
    /\ phase = "idle" /\ calls = 0 /\ ret.op = "__init__"
    /\ \E max_rounds \in {1, 2}, initial_price \in {Rat(1, 2), Rat(3, 10)} :
         \E r \in {setup_environment(max_rounds, initial_price)} :
             /\ IF r.ok
                  THEN /\ mechanism' = r.mech
                       /\ current_step' = 0
                       /\ history' = << >>
                  ELSE UNCHANGED << mechanism, current_step, history >>
             /\ ret' = Ended("setup_environment", ~r.ok, r.error, << >>)
    /\ UNCHANGED << calls, orchestrator_vars, alt, rounds_vars >>

\* _run_action_phase, line 150: run_parallel_action issues one decision
\* request per agent of the roster; run_environment runs max_rounds rounds
\* and stops at the first round that raises.
RunParallelAction ==
    /\ phase = "idle"
    /\ calls < mechanism.max_rounds
    /\ phase' = "action"
    /\ actions' = NoActions
    /\ arrival' = << >>
    /\ UNCHANGED << mechanism, current_step, history, calls, ret,
                    agent_last_action, alt, rounds_vars >>

\* The request of the agent at roster position i completes, in any order
\* among the requests in flight, and its output (or its failure) is stored in
\* slot i.
AgentDecision(i) ==
    /\ phase = "action"
    /\ actions[i] = None
    /\ \E output \in AgentOutputs :
         actions' = [actions EXCEPT ![i] = Some(output)]
    /\ arrival' = Append(arrival, i)
    /\ UNCHANGED << mechanism, current_step, history, calls, ret, phase,
                    agent_last_action, alt, rounds_vars >>

\* The mechanism after the bets of the batch built, if one was built.
BuiltBets(mech, built) ==
    IF built.raised
      THEN [ok |-> FALSE, error |-> built.error, mech |-> mech]
      ELSE apply_bets(mech, built.agent_actions)

\* _run_action_phase, lines 152-160, once run_parallel_action has returned:
\* the batch is built of the slots in roster order and the environment is
\* stepped with it.
RunActionPhase ==
    /\ phase = "action"
    /\ AllCompleted(actions)
    /\ calls' = calls + 1
    /\ \E built \in {process_agent_actions(Roster, Outputs(actions), 1,
                                           << >>, agent_last_action)} :
         \E bets \in {BuiltBets(mechanism, built)} :
           \E random \in RandomChoices(bets) :
             \E r \in {run_action_phase(mechanism, built, random)} :
               /\ mechanism' = r.mech
               /\ agent_last_action' = r.last_action
               /\ IF r.stepped /\ ~r.raised
                    THEN /\ current_step' = current_step + 1
                         /\ history' = Append(history,
                                [action |-> r.global_action,
                                 step |-> r.mech.last_step[1]])
                    ELSE UNCHANGED << current_step, history >>
               /\ phase' = IF r.raised THEN "aborted" ELSE "idle"
               /\ ret' = Ended("run_action_phase", r.raised, r.error,
                               r.global_action)
    /\ UNCHANGED << actions, arrival, alt, rounds_vars >>

OrchNext ==
    \/ SetupEnvironment
    \/ RunParallelAction
    \/ \E i \in DOMAIN Roster : AgentDecision(i)
    \/ RunActionPhase

SpecOrch == Init /\ [][OrchNext]_vars

\* ---------------------------------------------- two executions of a round

\* The first round of a run, executed twice from the same state on the same
\* outputs: in the second execution (alt) the requests complete in an order
\* of their own and step draws its own random outcomes.
AltDecision(i) ==
    /\ actions[i] # None
    /\ alt.actions[i] = None
    /\ alt' = [alt EXCEPT !.actions[i] = actions[i],
                          !.arrival = Append(alt.arrival, i)]
    /\ UNCHANGED << mechanism, current_step, history, calls, ret,
                    orchestrator_vars, rounds_vars >>

AltRunActionPhase ==
    /\ alt.ended = None
    /\ AllCompleted(alt.actions)
    /\ \E built \in {process_agent_actions(Roster, Outputs(alt.actions), 1,
                                           << >>,
                                           [a \in Range(Roster) |-> None])} :
         \E bets \in {BuiltBets(alt.mechanism, built)} :
           \E random \in RandomChoices(bets) :
             \E r \in {run_action_phase(alt.mechanism, built, random)} :
               alt' = [alt EXCEPT
                          !.mechanism = r.mech,
                          !.ended = Some(Ended("run_action_phase", r.raised,
                                               r.error, r.global_action))]
    /\ UNCHANGED << mechanism, current_step, history, calls, ret,
                    orchestrator_vars, rounds_vars >>

PairNext ==
    \/ calls = 0 /\ RunParallelAction
    \/ \E i \in DOMAIN Roster : AgentDecision(i)
    \/ RunActionPhase
    \/ \E i \in DOMAIN Roster : AltDecision(i)
    \/ AltRunActionPhase

SpecPair == Init /\ [][PairNext]_vars

\* ------------------------------------------------- the example of the spec

\* Three agents, max_rounds = 2, one binary market "Yes/No" without stake.
ExampleRoster == << "A", "B", "C" >>

ExampleMechanism ==
    PredictionMarketEnvironment(PredictionMarketMechanism(2, EmptyDict, None),
                                Some(BinaryConfig)).mech

ExampleChoices ==
    {b \in {Bet(BINARY, "m1", "Yes", 40), Bet(BINARY, "m1", "No", 60),
            Bet(BINARY, "m1", "Yes", 10), Hold("m1")} : PredictionBet(b).ok}

ExampleInit ==
    /\ mechanism = ExampleMechanism
    /\ current_step = 0
    /\ history = << >>
    /\ calls = 0
    /\ ret = Ended("__init__", FALSE, "", << >>)
    /\ phase = "idle"
    /\ actions = NoActions
    /\ arrival = << >>
    /\ agent_last_action = [a \in Range(Roster) |-> None]
    /\ alt = [mechanism |-> mechanism, actions |-> NoActions,
              arrival |-> << >>, ended |-> None]
    /\ round = NoRound
    /\ web = NoWeb

\* The three agents act, round after round, until the market is done.
ExampleStep ==
    /\ ~is_done(mechanism)
    /\ calls' = calls + 1
    /\ \E action \in BatchesOf(ExampleRoster, ExampleChoices) :
         \E bets \in {apply_bets(mechanism, action)} :
           \E random \in RandomChoices(bets) :
             EnvironmentStep(action, random)
    /\ UNCHANGED << orchestrator_vars, alt, rounds_vars >>

SpecExample == ExampleInit /\ [][ExampleStep]_vars

\* ------------------------------------------------- rounds of the two runs

market_vars == << mechanism, current_step, history, calls, ret, phase,
                  actions, arrival, agent_last_action, alt, round >>

\* run_environment of the prediction-market orchestrator, lines 106-107:
\* the next round is entered once the round before has returned.
StartRound ==
    /\ phase = "idle"
    /\ round.num < mechanism.max_rounds
    /\ round' = [round EXCEPT !.num = @ + 1, !.log = << >>,
                              !.prev_log = round.log, !.reflected = None]
    /\ phase' = Head(run_market_round)
    /\ actions' = NoActions
    /\ arrival' = << >>
    /\ UNCHANGED << mechanism, current_step, history, calls, ret,
                    agent_last_action, alt, web >>

\* _run_perception_phase, lines 132-145, returns.
RunPerceptionPhase ==
    /\ phase = "perception"
    /\ round' = [round EXCEPT !.log = Append(@, "perception")]
    /\ phase' = next_phase(run_market_round, "perception")
    /\ UNCHANGED << mechanism, current_step, history, calls, ret, actions,
                    arrival, agent_last_action, alt, web >>

\* _run_action_phase, lines 152-160, in a round: as RunActionPhase, and
\* process_environment_state hands the step's observations to the agents.
RoundActionPhase ==
    /\ phase = "action"
    /\ AllCompleted(actions)
    /\ calls' = calls + 1
    /\ \E built \in {process_agent_actions(Roster, Outputs(actions), 1,
                                           << >>, agent_last_action)} :
         \E bets \in {BuiltBets(mechanism, built)} :
           \E random \in RandomChoices(bets) :
             \E r \in {run_action_phase(mechanism, built, random)} :
               /\ mechanism' = r.mech
               /\ agent_last_action' = r.last_action
               /\ IF r.stepped /\ ~r.raised
                    THEN /\ current_step' = current_step + 1
                         /\ history' = Append(history,
                                [action |-> r.global_action,
                                 step |-> r.mech.last_step[1]])
                         /\ round' = [round EXCEPT
                                !.log = Append(@, "step"),
                                !.last_observation =
                                    process_environment_state(
                                        @, r.mech.last_step[1])]
                    ELSE UNCHANGED << current_step, history, round >>
               /\ phase' = IF r.raised
                             THEN "aborted"
                             ELSE next_phase(run_market_round, "action")
               /\ ret' = Ended("run_action_phase", r.raised, r.error,
                               r.global_action)
    /\ UNCHANGED << actions, arrival, alt, web >>

\* _run_reflection_phase, lines 224-249, returns.
RunReflectionPhase ==
    /\ phase = "reflection"
    /\ round' = [round EXCEPT
                    !.log = Append(@, "reflection"),
                    !.reflected = run_reflection_phase(
                                      Roster, round.last_observation)]
    /\ phase' = next_phase(run_market_round, "reflection")
    /\ UNCHANGED << mechanism, current_step, history, calls, ret, actions,
                    arrival, agent_last_action, alt, web >>

\* process_round_results, lines 273-337, ends, the storage collaborator
\* doing what it does; its exception leaves run_market_round (line 128) and
\* run_environment.
ProcessRoundResults ==
    /\ phase = "persistence"
    /\ \E storage \in StorageOutcomes :
         \E r \in {process_round_results(Roster, agent_last_action,
                                         storage)} :
             /\ ret' = Ended("process_round_results", r.raised, r.error,
                             << >>)
             /\ phase' = IF r.raised
                           THEN "aborted"
                           ELSE next_phase(run_market_round, "persistence")
             /\ round' = IF r.raised
                           THEN round
                           ELSE [round EXCEPT !.log = Append(@, "persistence")]
    /\ UNCHANGED << mechanism, current_step, history, calls, actions,
                    arrival, agent_last_action, alt, web >>

\* An event of a sub-round, with the phase the environment is in.
WebEvent(event) == [event |-> event, phase |-> web.current_phase]

\* run_environment and run_research_round of the web-research orchestrator,
\* lines 91-92 and 101-104: the next sub-round, of this round or of the next.
WebStartSubRound ==
    /\ web.pc = "idle"
    /\ orchestrator_runs(web.in_flight)
    /\ \/ web.sub_round < web.sub_rounds
       \/ web.round_num < web.max_rounds
    /\ web' = [web EXCEPT
                 !.round_num = IF web.sub_round < web.sub_rounds
                                 THEN @ ELSE @ + 1,
                 !.sub_round = IF web.sub_round < web.sub_rounds
                                 THEN @ + 1 ELSE 1,
                 !.pc = Head(run_research_round),
                 !.reflected = None,
                 !.log = << >>, !.prev_log = web.log]
    /\ UNCHANGED market_vars

\* _run_perception_phase, lines 143-159, returns.
WebPerceptionPhase ==
    /\ web.pc = "perception"
    /\ orchestrator_runs(web.in_flight)
    /\ web' = [web EXCEPT !.log = Append(@, WebEvent("perception")),
                          !.pc = next_phase(run_research_round, "perception")]
    /\ UNCHANGED market_vars

\* switch_phase (lines 127 and 131) and _run_action_phase up to the call of
\* the environment's step, lines 164-175: the agents answer, the batch is
\* built and the step begins, suspended on its searches.
WebStepCalled ==
    /\ web.pc \in {"search", "summary"}
    /\ orchestrator_runs(web.in_flight)
    /\ \E outputs \in [DOMAIN Roster -> WebOutputs] :
         \E r \in {web_step_called(
                       web.mechanism,
                       create_global_actions(Roster, outputs, web.pc,
                                             web.summary_model),
                       web.pc)} :
             web' = [switch_phase(web, web.pc).env EXCEPT
                       !.mechanism = r.mech,
                       !.in_flight = Append(@, r.call),
                       !.log = Append(@, [event |-> "step",
                                          phase |-> web.pc])]
    /\ UNCHANGED market_vars

\* The step returns, and with it _run_action_phase, lines 175-180: the
\* agents are handed their observations.
WebStepReturned ==
    /\ web.in_flight # << >>
    /\ \E r \in {web_step_returned(web.mechanism, Head(web.in_flight))} :
         web' = [web EXCEPT
                   !.mechanism = r.mech,
                   !.in_flight = Tail(@),
                   !.last_observation =
                       update_agent_observations(@, r.result),
                   !.pc = next_phase(run_research_round, web.pc)]
    /\ UNCHANGED market_vars

\* WebResearchOrchestrator._run_reflection_phase, lines 316-322, returns.
WebReflectionPhase ==
    /\ web.pc = "reflection"
    /\ orchestrator_runs(web.in_flight)
    /\ web' = [web EXCEPT !.log = Append(@, WebEvent("reflection")),
                          !.reflected = web_run_reflection_phase(Roster),
                          !.pc = next_phase(run_research_round, "reflection")]
    /\ UNCHANGED market_vars

\* WebResearchOrchestrator.process_round_results ends; its exception leaves
\* run_research_round (line 110) and run_environment.
WebProcessRoundResults ==
    /\ web.pc = "persistence"
    /\ orchestrator_runs(web.in_flight)
    /\ \E storage \in StorageOutcomes :
         \E r \in {web_process_round_results(storage)} :
             web' = IF r.raised
                      THEN [web EXCEPT !.pc = "aborted", !.error = r.error]
                      ELSE [web EXCEPT
                              !.log = Append(@, WebEvent("persistence")),
                              !.pc = next_phase(run_research_round,
                                                "persistence")]
    /\ UNCHANGED market_vars

\* A run of the prediction-market orchestrator on the environment it was
\* given, whose agents may come with an observation of an environment they
\* were run in before, or a run of the web-research orchestrator.
RoundsInit ==
    /\ current_step = 0
    /\ history = << >>
    /\ calls = 0
    /\ ret = Ended("__init__", FALSE, "", << >>)
    /\ actions = NoActions
    /\ arrival = << >>
    /\ agent_last_action = [a \in Range(Roster) |-> None]
    /\ mechanism \in InitialMechanisms
    /\ alt = [mechanism |-> mechanism, actions |-> NoActions,
              arrival |-> << >>, ended |-> None]
    /\ \/ /\ phase = "idle"
          /\ \E last_observation \in
                     [Range(Roster) -> {None, Some(PriorObservation)}] :
                 round = MarketRound(0, last_observation)
          /\ web = NoWeb
       \/ /\ phase = "off"
          /\ round = NoRound
          /\ mechanism = PredictionMarketMechanism(1, EmptyDict, None)
          /\ \E sub_rounds \in {1, 2}, max_rounds \in {1, 2},
                summary_model \in BOOLEAN :
                 web = [WebResearchOrchestrator(sub_rounds, max_rounds,
                                                "idle")
                            EXCEPT !.summary_model = summary_model]

RoundsNext ==
    \/ StartRound
    \/ RunPerceptionPhase
    \/ \E i \in DOMAIN Roster : AgentDecision(i)
    \/ RoundActionPhase
    \/ RunReflectionPhase
    \/ ProcessRoundResults
    \/ WebStartSubRound
    \/ WebPerceptionPhase
    \/ WebStepCalled
    \/ WebStepReturned
    \/ WebReflectionPhase
    \/ WebProcessRoundResults

SpecRounds == RoundsInit /\ [][RoundsNext]_vars

\* ------------------------------------- the web-research environment alone

\* The calls a caller makes on one WebSearchEnvironment.
MaxWebCalls == 3

\* What a call on the environment was: the operation, its argument and
\* whether it raised.
WebCall(op, arg, raised) == [op |-> op, arg |-> arg, raised |-> raised]

\* A WebSearchEnvironment as constructed, in phase search, around a
\* mechanism of one or two rounds, with or without a summary model.
WebEnvInit ==
    /\ mechanism = PredictionMarketMechanism(1, EmptyDict, None)
    /\ current_step = 0
    /\ history = << >>
    /\ calls = 0
    /\ ret = Ended("__init__", FALSE, "", << >>)
    /\ phase = "off"
    /\ actions = NoActions
    /\ arrival = << >>
    /\ agent_last_action = [a \in Range(Roster) |-> None]
    /\ alt = [mechanism |-> mechanism, actions |-> NoActions,
              arrival |-> << >>, ended |-> None]
    /\ round = NoRound
    /\ \E max_rounds \in {1, 2}, summary_model \in BOOLEAN :
         web = [WebResearchOrchestrator(max_rounds, 1, "direct") EXCEPT
                  !.summary_model = summary_model,
                  !.action_space = WebResearchActionSpace(summary_model)]

web_env_vars == << mechanism, current_step, history, ret, phase, actions,
                   arrival, agent_last_action, alt, round >>

\* A caller switches the phase, to a valid or an invalid one.
SwitchPhase ==
    /\ web.pc = "direct"
    /\ calls < MaxWebCalls
    /\ calls' = calls + 1
    /\ \E to \in {"search", "summary", "reflection"} :
         \E r \in {switch_phase(web, to)} :
             web' = [r.env EXCEPT
                       !.error = r.error,
                       !.last_call = WebCall("switch_phase", to, r.raised)]
    /\ UNCHANGED web_env_vars

\* A caller resets the environment.
WebReset ==
    /\ web.pc = "direct"
    /\ calls < MaxWebCalls
    /\ calls' = calls + 1
    /\ web' = [web_reset(web) EXCEPT
                 !.error = "",
                 !.last_call = WebCall("reset", "", FALSE)]
    /\ UNCHANGED web_env_vars

\* A caller steps the environment with a batch built for the current phase
\* and awaits the result.
WebStep ==
    /\ web.pc = "direct"
    /\ calls < MaxWebCalls
    /\ calls' = calls + 1
    /\ \E outputs \in [DOMAIN Roster -> WebOutputs] :
         \E called \in {web_step_called(
                            web.mechanism,
                            create_global_actions(Roster, outputs,
                                                  web.current_phase,
                                                  web.summary_model),
                            web.current_phase)} :
           \E r \in {web_step_returned(called.mech, called.call)} :
               web' = [web EXCEPT
                         !.mechanism = r.mech,
                         !.error = "",
                         !.last_call = WebCall("step", "", FALSE)]
    /\ UNCHANGED web_env_vars

WebEnvNext == SwitchPhase \/ WebReset \/ WebStep

SpecWebEnv == WebEnvInit /\ [][WebEnvNext]_vars

\* ----------------------------------------------------------------- claims

Markets == mechanism.markets

\* The total stake of a market over its declared options.
TotalStake(m) == SumOver(m.total_bets, m.options)

\* C1: in a BINARY or CATEGORICAL market that a bet has been applied to,
\* current_prices has exactly one entry per declared option, every price is
\* non-negative, each price is the option's total stake over the total stake
\* of all declared options, and the prices sum to 1.
C1_PricesNormalized ==
    \A e \in DOMAIN Markets :
        LET m == Markets[e]
        IN  (m.market_type \in {BINARY, CATEGORICAL} /\ m.total_bets # EmptyDict)
            => /\ DOMAIN m.current_prices = Range(m.options)
               /\ \A opt \in Range(m.options) :
                    /\ RatNonNeg(m.current_prices[opt])
                    /\ RatEq(m.current_prices[opt],
                             Rat(Get(m.total_bets, opt), TotalStake(m)))
               /\ RatEq(RatSum(m.current_prices, m.options), Rat(1, 1))

\* C1 witness: a market with bets of different stakes on two of its options.
C1_Witness ==
    \E e \in DOMAIN Markets :
        /\ Get(Markets[e].total_bets, "Yes") = 1
        /\ Get(Markets[e].total_bets, "No") = 2
        /\ ret.op = "step" /\ ~ret.raised

\* The BETs of a batch.
BetsOf(action) ==
    {action[i].action : i \in {j \in DOMAIN action :
                                  action[j].action.action_type = BET}}

\* Every BET of the batch names an event the mechanism holds a market for
\* (no BET of it meets a missing market or a missing configuration).
OnHeldMarkets(action) == \A b \in BetsOf(action) : b.event_id \in DOMAIN Markets

\* C2 (as claimed): counting from current_round = 0, a step before the
\* max_rounds-th returns done = false, and the max_rounds-th step returns
\* done = true and leaves every market resolved.  (Stated for batches whose
\* bets all name markets the mechanism holds.)
C2_Termination ==
    (ret.op = "step" /\ OnHeldMarkets(ret.action))
    => /\ ~ret.raised
       /\ mechanism.last_step # None
       /\ mechanism.last_step[1].round = mechanism.current_round
       /\ mechanism.last_step[1].done
              = (mechanism.current_round >= mechanism.max_rounds)
       /\ mechanism.current_round = mechanism.max_rounds
              => \A e \in DOMAIN Markets : Markets[e].resolved

\* C5 (as claimed): a bet whose outcome is not a declared option of its
\* market does not make step raise; the round summary entry of the round is
\* appended and step returns a result for the round.
C5_InvalidBetSkipped ==
    (/\ ret.op = "step"
     /\ OnHeldMarkets(ret.action)
     /\ \E b \in BetsOf(ret.action) :
            b.outcome \notin Range(Markets[b.event_id].options))
    => /\ ~ret.raised
       /\ Len(mechanism.round_summaries) > 0
       /\ mechanism.round_summaries[Len(mechanism.round_summaries)] = ret.action
       /\ mechanism.last_step # None
       /\ mechanism.last_step[1].round = mechanism.current_round

\* C6 (as claimed): a step that raises leaves the mechanism as it was before
\* the call.
C6_StepAtomic ==
    [][(ret'.op = "step" /\ ret'.raised /\ calls' = calls + 1)
          => mechanism' = mechanism]_vars

\* A market no bet has been applied to.
ZeroStake(m) == m.total_bets = EmptyDict

\* C7 (as claimed): a market with zero stake has price 1/len(options) for
\* every declared option.
C7_UniformWhenFresh ==
    \A e \in DOMAIN Markets :
        ZeroStake(Markets[e])
        => \A opt \in Range(Markets[e].options) :
               RatEq(Markets[e].current_prices[opt],
                     Rat(1, Len(Markets[e].options)))

\* C7 (amended): a market with zero stake has the prices it was created
\* with: the configuration's initial_prices when initialize_market created
\* it, the current_prices its constructor was given otherwise.
C7_ConfiguredWhenFresh ==
    \A e \in DOMAIN Markets :
        ZeroStake(Markets[e])
        => Markets[e].current_prices =
               IF mechanism.market_config # None
                 THEN mechanism.market_config[1].initial_prices
                 ELSE DirectMarkets[e].current_prices

\* C7 witness: a step has created the market of a configuration whose
\* initial prices are not uniform, and no bet has been applied to it.
C7_Witness ==
    /\ ret.op = "step"
    /\ mechanism.market_config = Some(CategoricalConfig)
    /\ mechanism.current_round = calls
    /\ history = << >>
    /\ "m1" \in DOMAIN Markets
    /\ ZeroStake(Markets["m1"])
    /\ ~RatEq(Markets["m1"].current_prices["Yes"], Rat(1, 3))
    /\ ret.action # << >>

\* C8 (as claimed): a call of resolve, or a step, that returns does not
\* change the outcome of a market that was already resolved.
C8_ResolveIdempotent ==
    [][(ret'.op \in {"resolve", "step"} /\ ~ret'.raised /\ calls' = calls + 1)
          => \A e \in DOMAIN Markets :
                 Markets[e].resolved
                 => mechanism'.markets[e].outcome = Markets[e].outcome]_vars

\* C10 (as claimed): a resolved market's outcome is one of its declared
\* options, and the outcome of a market, once set, is never set again.
C10_OutcomeSetOnce ==
    /\ [](\A e \in DOMAIN Markets :
             Markets[e].resolved
             => Markets[e].outcome \in Range(Markets[e].options))
    /\ [][\A e \in (DOMAIN Markets) \cap (DOMAIN mechanism'.markets) :
             (Markets[e].outcome # NoOutcome /\ mechanism'.markets[e].resolved)
             => mechanism'.markets[e].outcome = Markets[e].outcome]_vars

\* The batch in which A, B and C submit a, b and c.
ExampleBatch(a, b, c) ==
    << [agent_id |-> "A", action |-> a], [agent_id |-> "B", action |-> b],
       [agent_id |-> "C", action |-> c] >>

\* Round 1 of the example: A bets 40 on Yes, B bets 60 on No, C holds.
ExampleRound1 ==
    ExampleBatch(Bet(BINARY, "m1", "Yes", 40), Bet(BINARY, "m1", "No", 60),
                 Hold("m1"))

\* Round 2 of the example: A bets 10 more on Yes, B and C hold.
ExampleRound2 ==
    ExampleBatch(Bet(BINARY, "m1", "Yes", 10), Hold("m1"), Hold("m1"))

\* C9: in the example, round 1 leaves total stakes {Yes: 40, No: 60}, prices
\* {Yes: 40/100, No: 60/100} and done = false; round 2 leaves total stakes
\* {Yes: 50, No: 60}, prices {Yes: 50/110, No: 60/110}, done = true and the
\* market resolved with an outcome among Yes and No.
C9_Example ==
    LET m == Markets["m1"]
        rounds == mechanism.round_summaries
    IN  /\ rounds = << ExampleRound1 >>
           => /\ ~ret.raised
              /\ m.total_bets = [o \in {"Yes", "No"} |->
                                    IF o = "Yes" THEN 40 ELSE 60]
              /\ RatEq(m.current_prices["Yes"], Rat(40, 100))
              /\ RatEq(m.current_prices["No"], Rat(60, 100))
              /\ mechanism.last_step[1].done = FALSE
              /\ ~m.resolved
        /\ rounds = << ExampleRound1, ExampleRound2 >>
           => /\ ~ret.raised
              /\ m.total_bets = [o \in {"Yes", "No"} |->
                                    IF o = "Yes" THEN 50 ELSE 60]
              /\ RatEq(m.current_prices["Yes"], Rat(50, 110))
              /\ RatEq(m.current_prices["No"], Rat(60, 110))
              /\ mechanism.last_step[1].done = TRUE
              /\ m.resolved
              /\ m.outcome \in {"Yes", "No"}

\* C9 witness: both rounds of the example have been played.
C9_Witness ==
    /\ mechanism.round_summaries = << ExampleRound1, ExampleRound2 >>
    /\ current_step = 2

\* The roster positions whose request failed, and those whose output is a
\* well-formed action (a JSON object with a known action type).
FailedSlots(slots) == {i \in DOMAIN slots : slots[i] = Some(FailedOutput)}

WellFormedSlots(slots) ==
    {i \in DOMAIN slots :
        /\ slots[i] # None
        /\ slots[i][1].kind = "json"
        /\ slots[i][1].content.action_type \in ActionType}

\* C3 (as claimed): when exactly one agent's request failed and every other
\* agent answered with a well-formed action, the action phase does not
\* raise, the batch holds a HOLD for the failed agent, and the step returns
\* an observation for every other agent.
C3_Isolation ==
    (/\ ret.op = "run_action_phase"
     /\ phase # "action"
     /\ Cardinality(FailedSlots(actions)) = 1
     /\ FailedSlots(actions) \cup WellFormedSlots(actions) = DOMAIN Roster)
    => /\ ~ret.raised
       /\ \A i \in FailedSlots(actions) :
            \E k \in DOMAIN ret.action :
                /\ ret.action[k].agent_id = Roster[i]
                /\ ret.action[k].action.action_type = HOLD
       /\ mechanism.last_step # None
       /\ mechanism.last_step[1].round = mechanism.current_round
       /\ \A i \in WellFormedSlots(actions) :
            Roster[i] \in Range(mechanism.last_step[1].observations)

\* What the claim compares of a market: stakes, prices, resolved, outcome.
MarketView(m) ==
    [total_bets |-> m.total_bets, current_prices |-> m.current_prices,
     resolved |-> m.resolved, outcome |-> m.outcome]

StepMade == ret'.op = "step" /\ calls' = calls + 1

\* C17 (as claimed, its part on the mechanism): a step that raises the
\* configuration error (a BET for an event with no market, and no market
\* configuration) leaves the markets and the round summaries of the rounds
\* before it as they were.
C17_ConfigErrorLeavesState ==
    [][(StepMade /\ ret'.raised
        /\ ret'.error = "ValueError: No market configuration found")
          => /\ mechanism'.markets = mechanism.markets
             /\ mechanism'.round_summaries = mechanism.round_summaries]_vars

\* C18 (as claimed): a step removes no market that is not yet resolved and
\* lowers the total stake of no option of it.
C18_MarketsPersist ==
    [][StepMade
          => \A e \in {x \in DOMAIN Markets : ~Markets[x].resolved} :
                /\ e \in DOMAIN mechanism'.markets
                /\ \A opt \in Range(Markets[e].options) :
                      Get(mechanism'.markets[e].total_bets, opt)
                          >= Get(Markets[e].total_bets, opt)]_vars

\* The events of the BETs of a batch that the mechanism holds no market for.
UnknownEvents(action) ==
    {b.event_id : b \in {x \in BetsOf(action) : x.event_id \notin DOMAIN Markets}}

\* C19 (as claimed): when a batch holds a BET for an event the mechanism has
\* no market for and a market configuration is available, the step leaves a
\* market keyed by that event, and the stakes and prices of a market that
\* existed and that no BET of the batch names are unchanged.
C19_LazyCreation ==
    [][(StepMade /\ mechanism.market_config # None
        /\ UnknownEvents(ret'.action) # {})
          => /\ UnknownEvents(ret'.action) \subseteq DOMAIN mechanism'.markets
             /\ \A e \in DOMAIN Markets :
                   (\A b \in BetsOf(ret'.action) : b.event_id # e)
                   => /\ e \in DOMAIN mechanism'.markets
                      /\ mechanism'.markets[e].total_bets = Markets[e].total_bets
                      /\ mechanism'.markets[e].current_prices
                             = Markets[e].current_prices]_vars

\* The batch without its HOLDs.
NonHold(action) == SelectSeq(action, LAMBDA x : x.action.action_type # HOLD)

\* C20: a step ends as it would have ended on the batch without its HOLDs
\* (it raises or returns alike and leaves the same markets: total_bets,
\* current_prices, total_liquidity, resolved and outcome), whether or not a
\* market exists for a HOLD's event; and when it returns, the round summary
\* entry holds every action of the batch, the HOLDs included, under its
\* agent id.
C20_HoldChangesNoMarket ==
    [][StepMade
          => LET action == ret'.action
                 without == apply_bets(mechanism, NonHold(action))
             IN  /\ ret'.raised = ~without.ok
                 /\ \E random \in RandomChoices(without) :
                        mechanism'.markets
                            = step(mechanism, NonHold(action), random).mech.markets
                 /\ ~ret'.raised
                    => /\ Len(mechanism'.round_summaries)
                              = Len(mechanism.round_summaries) + 1
                       /\ mechanism'.round_summaries[
                              Len(mechanism'.round_summaries)] = action]_vars

\* C20 witness: a step has returned on a batch of HOLDs for an event the
\* mechanism holds no market for, and the round summary records them.
C20_Witness ==
    /\ ret.op = "step" /\ ~ret.raised
    /\ ret.action # << >>
    /\ \A i \in DOMAIN ret.action :
          /\ ret.action[i].action.action_type = HOLD
          /\ ret.action[i].action.event_id \notin DOMAIN Markets
    /\ mechanism.round_summaries # << >>
    /\ mechanism.round_summaries[Len(mechanism.round_summaries)] = ret.action

\* The slots whose output is malformed: text that does not parse, or a dict
\* that PredictionMarketAction does not validate.
MalformedSlots(slots) ==
    {i \in DOMAIN slots :
        /\ slots[i] # None
        /\ \/ slots[i][1].kind = "str"
           \/ /\ slots[i][1].kind = "json"
              /\ slots[i][1].content.action_type \notin ActionType}

\* C12 (as claimed): when an agent's output is malformed, the action phase
\* does not raise, the batch holds a HOLD for that agent and an entry for
\* every agent that answered with a well-formed action, and the round
\* summary of that round is the batch.
C12_MalformedOutputHeld ==
    (/\ ret.op = "run_action_phase"
     /\ phase # "action"
     /\ MalformedSlots(actions) # {}
     /\ MalformedSlots(actions) \cup WellFormedSlots(actions) = DOMAIN Roster)
    => /\ ~ret.raised
       /\ \A i \in MalformedSlots(actions) :
            \E k \in DOMAIN ret.action :
                /\ ret.action[k].agent_id = Roster[i]
                /\ ret.action[k].action.action_type = HOLD
       /\ \A i \in WellFormedSlots(actions) :
            \E k \in DOMAIN ret.action :
                /\ ret.action[k].agent_id = Roster[i]
                /\ ret.action[k].action.action_type
                       = actions[i][1].content.action_type
       /\ mechanism.round_summaries # << >>
       /\ mechanism.round_summaries[Len(mechanism.round_summaries)]
              = ret.action

\* C11 (as claimed): a failure of the storage collaborator in
\* process_round_results is not propagated: the call does not raise and
\* neither orchestrator's run is aborted by it.
C11_StorageFailureContained ==
    /\ (ret.op = "process_round_results" /\ ret.error = "StorageError")
           => (~ret.raised /\ phase # "aborted")
    /\ web.error = "StorageError" => web.pc # "aborted"

IsPrefix(s, t) == Len(s) <= Len(t) /\ \A i \in DOMAIN s : s[i] = t[i]

EventsOf(log) == [i \in DOMAIN log |-> log[i].event]

\* C13: in every prediction-market round the perception phase has returned
\* before the action phase starts and the step has returned before the
\* reflection phase starts; in every web-research sub-round the order is
\* perception, the step of the search phase (made in phase search), the step
\* of the summary phase (made in phase summary), reflection, and no step is
\* in flight once the reflection phase has started.
C13_PhaseOrder ==
    /\ IsPrefix(round.log, << "perception", "step", "reflection",
                              "persistence" >>)
    /\ phase = "action" => round.log = << "perception" >>
    /\ phase = "reflection" => round.log = << "perception", "step" >>
    /\ IsPrefix(EventsOf(web.log), << "perception", "step", "step",
                                    "reflection", "persistence" >>)
    /\ Len(web.log) >= 2 => web.log[2].phase = "search"
    /\ Len(web.log) >= 3 => web.log[3].phase = "summary"
    /\ web.pc \in {"search", "summary"} => web.log # << >>
    /\ (web.pc = "reflection" \/ Len(web.log) >= 4)
           => (web.in_flight = << >> /\ Len(web.log) >= 3)

C13_Witness ==
    /\ round.num = 2
    /\ round.log = << "perception", "step", "reflection", "persistence" >>

\* The log of a round (or sub-round) that ran to its end.
Completed(events) ==
    /\ events # << >>
    /\ events[Len(events)] = "persistence"
    /\ \E i \in DOMAIN events : events[i] = "step"

\* C14: at most one step call of the web-research environment is in flight,
\* and only during an action phase; when a round of the prediction-market
\* orchestrator or a sub-round of the web-research orchestrator begins after
\* another, that one's step and its persistence call have returned.
C14_StepsNeverOverlap ==
    /\ Len(web.in_flight) <= 1
    /\ web.in_flight # << >> => web.pc \in {"search", "summary"}
    /\ (web.round_num > 1 \/ web.sub_round > 1)
           => Completed(EventsOf(web.prev_log))
    /\ round.num > 1 => Completed(round.prev_log)

C14_Witness ==
    /\ web.round_num = 2
    /\ web.in_flight # << >>
    /\ web.current_phase = "summary"

\* C15 (as claimed): each mechanism's current_round stays within
\* 0..max_rounds.
C15_RoundWithinBounds ==
    /\ mechanism.current_round \in 0..mechanism.max_rounds
    /\ web.mechanism.current_round \in 0..web.mechanism.max_rounds

\* C16 (as claimed): the agents handed to the reflection phase each hold an
\* observation of this round's step (of one of the two steps of this
\* sub-round), and with no such agent run_parallel_reflection is not called.
C16_ReflectOnlyObserved ==
    /\ round.reflected # None
           => \A i \in DOMAIN round.reflected[1] :
                  /\ \E k \in DOMAIN round.log : round.log[k] = "step"
                  /\ round.last_observation[round.reflected[1][i]]
                         = Some(LocalObservation(mechanism.current_round))
    /\ web.reflected # None
           => \A i \in DOMAIN web.reflected[1] :
                  LET held == web.last_observation[web.reflected[1][i]]
                  IN  /\ held # None
                      /\ held[1].round >= web.mechanism.current_round - 1

\* C21: a step that returns holds one local observation per agent id of the
\* batch, in the batch's order, HOLDs included, and no other; the market
\* states they all share are the mechanism's markets as the step leaves
\* them, resolved on the final round.
C21_ObservationPerAgent ==
    (ret.op = "step" /\ ~ret.raised)
    => /\ mechanism.last_step # None
       /\ mechanism.last_step[1].observations
              = [i \in DOMAIN ret.action |-> ret.action[i].agent_id]
       /\ mechanism.last_step[1].observation = mechanism.markets

C21_Witness ==
    /\ ret.op = "step" /\ ~ret.raised
    /\ Len(ret.action) = 2
    /\ \E i \in DOMAIN ret.action : ret.action[i].action.action_type = HOLD
    /\ \E i \in DOMAIN ret.action : ret.action[i].action.action_type = BET
    /\ mechanism.last_step[1].done
    /\ \E e \in DOMAIN Markets : Markets[e].resolved

\* C22 (as claimed): the batch of every step of a web-research action phase
\* holds one action per agent of the roster, in roster order, of a type
\* allowed in the phase the step is made in.
C22_BatchCoversRoster ==
    \A k \in DOMAIN web.in_flight :
        LET call == web.in_flight[k]
        IN  /\ [i \in DOMAIN call.batch |-> call.batch[i].agent_id] = Roster
            /\ \A i \in DOMAIN call.batch :
                   call.batch[i].action
                       \in allowed_actions(call.phase, web.summary_model)

\* C23 (as claimed): a web-research step that executed a search leaves a
\* record of it in search_history.
C23_SearchRecorded ==
    (/\ web.mechanism.last_step # None
     /\ web.mechanism.last_step[1].searched # << >>)
    => web.mechanism.search_history # << >>

\* C24: switch_phase with a phase other than "search" and "summary" raises
\* and leaves the environment as it was; with one of them it sets the
\* environment's phase and the action space's phase and allowed actions, and
\* leaves the mechanism (current_round, search_history, current_query) as it
\* was.
C24_SwitchPhaseFrame ==
    [][(web'.last_call.op = "switch_phase" /\ calls' = calls + 1)
       => IF web'.last_call.arg \in {"search", "summary"}
            THEN /\ ~web'.last_call.raised
                 /\ web'.current_phase = web'.last_call.arg
                 /\ web'.action_space =
                        [current_phase |-> web'.last_call.arg,
                         allowed_actions |->
                             allowed_actions(web'.last_call.arg,
                                             web.summary_model)]
                 /\ web'.mechanism = web.mechanism
                 /\ web'.summary_model = web.summary_model
            ELSE /\ web'.last_call.raised
                 /\ web'.current_phase = web.current_phase
                 /\ web'.action_space = web.action_space
                 /\ web'.mechanism = web.mechanism]_vars

C24_Witness ==
    /\ web.last_call = WebCall("switch_phase", "summary", FALSE)
    /\ web.mechanism.current_round > 0
    /\ web.mechanism.current_query = AgentQuery

\* C30 (as claimed): the environment's phase is the phase of its action
\* space, whose allowed actions are those of that phase.
C30_PhaseAgreesWithActionSpace ==
    web.pc = "direct"
    => /\ web.current_phase = web.action_space.current_phase
       /\ web.action_space.allowed_actions
              = allowed_actions(web.current_phase, web.summary_model)

\* C25: current_step is the number of entries of history; a step that
\* returns adds one to the counter and appends to the history the batch with
\* the EnvironmentStep the mechanism produced, which is its last_step; a step
\* that raises leaves both as they were.
C25_StepCounted ==
    [][/\ current_step' = Len(history')
       /\ (StepMade /\ ~ret'.raised)
              => /\ current_step' = current_step + 1
                 /\ mechanism'.last_step # None
                 /\ history' = Append(history,
                                      [action |-> ret'.action,
                                       step |-> mechanism'.last_step[1]])
       /\ (StepMade /\ ret'.raised)
              => UNCHANGED << current_step, history >>]_vars

C25_Witness ==
    /\ ret.op = "step" /\ ~ret.raised
    /\ current_step = 2
    /\ Len(history) = 2
    /\ history[1].action # history[2].action

\* C26 (as claimed): after reset the counter is 0, the history is empty, and
\* the mechanism is at round 0 with no round summary, last action or last
\* step.
C26_ResetToFresh ==
    ret.op = "reset"
    => /\ current_step = 0
       /\ history = << >>
       /\ mechanism.current_round = 0
       /\ mechanism.round_summaries = << >>
       /\ mechanism.last_action = None
       /\ mechanism.last_step = None

\* C27 (as claimed): every step, one that raises included, appends exactly
\* one entry to round_summaries and changes none of the entries before it,
\* and the number of entries moves with current_round.
C27_SummaryAppendOnly ==
    [][StepMade
       => /\ \E entry \in {ret'.action} :
                 mechanism'.round_summaries
                     = Append(mechanism.round_summaries, entry)
          /\ mechanism'.current_round - Len(mechanism'.round_summaries)
                 = mechanism.current_round - Len(mechanism.round_summaries)
      ]_vars

\* C28 (as claimed): a step leaves every market that was resolved before it
\* with the total_bets, current_prices, total_liquidity and outcome it had.
C28_ResolvedMarketFrozen ==
    [][StepMade
       => \A e \in {x \in DOMAIN Markets : Markets[x].resolved} :
              /\ e \in DOMAIN mechanism'.markets
              /\ mechanism'.markets[e].total_bets = Markets[e].total_bets
              /\ mechanism'.markets[e].current_prices
                     = Markets[e].current_prices
              /\ mechanism'.markets[e].total_liquidity
                     = Markets[e].total_liquidity
              /\ mechanism'.markets[e].outcome = Markets[e].outcome
      ]_vars

\* The liquidity a market of the mechanism started with: that of the
\* configuration for the configured market, the default of MarketState for a
\* market handed to the constructor.
InitialLiquidityOf(mech, e) ==
    IF mech.market_config # None /\ mech.market_config[1].name = e
      THEN Field(mech.market_config[1], "initial_liquidity",
                 mech.initial_liquidity)
      ELSE 0

LiquidityBalanced(mech) ==
    \A e \in DOMAIN mech.markets :
        mech.markets[e].total_liquidity
            = InitialLiquidityOf(mech, e) + TotalStake(mech.markets[e])

\* C29: in every state the total_liquidity of every market is its initial
\* liquidity plus its total stake; and a step whose bets on a market are all
\* rejected by update_with_bet (their outcome is no option of it) leaves its
\* total_bets, current_prices and total_liquidity as they were.
C29_LiquidityIsStakePlusInitial ==
    /\ LiquidityBalanced(mechanism)
    /\ [][/\ LiquidityBalanced(mechanism')
          /\ (StepMade /\ OnHeldMarkets(ret'.action))
                 => \A e \in DOMAIN Markets :
                        (\A b \in BetsOf(ret'.action) :
                             b.event_id = e
                                 => b.outcome \notin Range(Markets[e].options))
                        => /\ mechanism'.markets[e].total_bets
                                  = Markets[e].total_bets
                           /\ mechanism'.markets[e].current_prices
                                  = Markets[e].current_prices
                           /\ mechanism'.markets[e].total_liquidity
                                  = Markets[e].total_liquidity
         ]_vars

C29_Witness ==
    /\ ret.op = "step" /\ ret.raised
    /\ ret.error = "ValueError: not a valid option"
    /\ \E e \in DOMAIN Markets :
           /\ TotalStake(Markets[e]) > 0
           /\ Markets[e].total_liquidity > TotalStake(Markets[e])
           /\ \E b \in BetsOf(ret.action) : b.event_id = e
           /\ \A b \in BetsOf(ret.action) :
                  b.event_id = e /\ b.outcome \notin Range(Markets[e].options)

====
